---- MODULE Spec2Model ----
(***************************************************************************)
(* Model of evalscope/backend/rag_eval/utils/embedding.py: the factory     *)
(* EmbeddingModel.load and the three adapters it can return                *)
(* (SentenceTransformerModel, CrossEncoderModel, APIEmbeddingModel).       *)
(*                                                                         *)
(* Text is a sequence of one-character strings.  A tensor or a nested list *)
(* is a record [type, shape, data]: type says what kind of object it is    *)
(* ("tensor", "ndarray", "list"), shape its dimensions and data its        *)
(* numbers in row-major order.  Every method is an operator from the       *)
(* adapter (self), its arguments and the outcome of the external calls to  *)
(* a record [self, calls, ret]: the adapter afterwards, the calls made to  *)
(* the external collaborators in order, and what the caller gets back.     *)
(***************************************************************************)
EXTENDS Integers, Sequences, FiniteSets, TLC

VARIABLES adapter, built, lastOp, calls, ret

vars == <<adapter, built, lastOp, calls, ret>>

(* ------------------------------ bounds --------------------------------- *)

\* longest list of texts handed to APIEmbeddingModel.encode
MaxTexts == 5
\* longest list of texts handed to the other methods
MaxList == 2
\* longest corpus of structured records
MaxDocs == 2
\* longest list of sentences handed to CrossEncoderModel.predict
MaxPairs == 2
\* largest batch_size given in encode_kwargs
MaxBatch == 2
\* latest remote batch-embed call that may fail
MaxFail == 2

(* ----------------------------- constants ------------------------------- *)

\* self.encode_kwargs.get('batch_size', 10)
DefaultBatchSize == 10

\* HubType.MODELSCOPE, the default hub of EmbeddingModel.load
MODELSCOPE == "modelscope"

Hubs == {MODELSCOPE, "huggingface"}

(* ------------------------------- text ---------------------------------- *)

IsSpace(c) == c = " "

RECURSIVE LStrip(_)
LStrip(s) == IF s # <<>> /\ IsSpace(Head(s)) THEN LStrip(Tail(s)) ELSE s

RECURSIVE RStrip(_)
RStrip(s) ==
    IF s # <<>> /\ IsSpace(s[Len(s)]) THEN RStrip(SubSeq(s, 1, Len(s) - 1)) ELSE s

\* a strip of the left end only
Strip_LeftOnly(s) == LStrip(s)

\* str.strip()
Strip(s) == RStrip(LStrip(s))

\* '{} {}'.format(a, b)
Format(a, b) == a \o <<" ">> \o b

\* a slice that takes one element too many
Slice_Inclusive(seq, i, j) == SubSeq(seq, i + 1, IF j + 1 < Len(seq) THEN j + 1 ELSE Len(seq))

\* python's seq[i:j] with 0 <= i, 0-based and end-exclusive, clipped to the length
Slice(seq, i, j) == SubSeq(seq, i + 1, IF j < Len(seq) THEN j ELSE Len(seq))

SeqsUpTo(S, n) == UNION {[1..k -> S] : k \in 0..n}

(* --------------------------- option bags ------------------------------- *)

EmptyKw == [k \in {} |-> TRUE]

\* dict.update(other): the other's entries win
Update(d, other) ==
    [k \in DOMAIN d \cup DOMAIN other |-> IF k \in DOMAIN other THEN other[k] ELSE d[k]]

\* dict.pop(key, default), for its effect on the dict
Pop(d, key) == [k \in DOMAIN d \ {key} |-> d[k]]

\* dict.get(key, default)
Get(d, key, default) == IF key \in DOMAIN d THEN d[key] ELSE default

(* ------------------------- values and results -------------------------- *)

\* a python str where a str or a dict may stand
Str(s) == [isdict |-> FALSE, has_title |-> FALSE, title |-> <<>>, text |-> s]

\* a list of str as a list of values
StrItems(texts) == [i \in 1..Len(texts) |-> Str(texts[i])]

\* the strs of a list of str values
Texts(items) == [i \in 1..Len(items) |-> items[i].text]

\* an argument that is one str
One(s) == [isstr |-> TRUE, val |-> s]

\* an argument that is a list of str
Many(texts) == [isstr |-> FALSE, val |-> texts]

NoValue == [type |-> "none", shape |-> <<>>, data |-> <<>>]

Ok(v) == [status |-> "ok", value |-> v]

Raise(e) == [status |-> e, value |-> NoValue]

RECURSIVE Flatten(_)
Flatten(rows) == IF rows = <<>> THEN <<>> ELSE Head(rows) \o Flatten(Tail(rows))

\* the shape of a list of rows: torch.tensor([]) and an empty batch have shape (0,)
ShapeOf(rows) == IF rows = <<>> THEN <<0>> ELSE <<Len(rows), Len(rows[1])>>

\* torch.tensor(embeddings)
TorchTensor(rows) == [type |-> "tensor", shape |-> ShapeOf(rows), data |-> Flatten(rows)]

\* Tensor.tolist(): the same numbers in the same nesting, as plain lists
ToList(t) == [type |-> "list", shape |-> t.shape, data |-> t.data]

\* len(x) of a nested list
ListLen(l) == l.shape[1]

\* x[i] of a nested list of depth 2, i 0-based
ListItem(l, i) ==
    [type |-> "list", shape |-> Tail(l.shape),
     data |-> SubSeq(l.data, i * l.shape[2] + 1, (i + 1) * l.shape[2])]

(* ----------------------- external collaborators ------------------------ *)

CharCode(c) ==
    CASE c = "a" -> 1 [] c = "b" -> 2 [] c = "A" -> 3 [] c = " " -> 4
      [] c = "p" -> 5 [] c = "q" -> 6 [] c = "d" -> 7 [] c = "e" -> 8
      [] OTHER -> 9

RECURSIVE Code(_)
Code(s) == IF s = <<>> THEN 0 ELSE CharCode(Head(s)) + 10 * Code(Tail(s))

\* the vector an embedding model gives a text: a function of the text alone
Vec(s) == <<Len(s), Code(s)>>

\* the prompt argument None
NonePrompt == <<"None">>

\* the text the runtime embeds: the prompt, when there is one, before the sentence
Prompted(prompt, s) == IF prompt = NonePrompt THEN s ELSE prompt \o s

\* SentenceTransformer.encode(sentences, prompt=prompt, **kwargs): one vector for
\* a str, one row per sentence for a list; a Tensor only with convert_to_tensor
ST_encode(texts, prompt, kwargs) ==
    LET type == IF Get(kwargs, "convert_to_tensor", FALSE) THEN "tensor" ELSE "ndarray"
        rows == [i \in 1..Len(texts.val) |-> Vec(Prompted(prompt, texts.val[i]))]
    IN  IF texts.isstr
        THEN [type |-> type, shape |-> <<Len(Vec(<<>>))>>,
              data |-> Vec(Prompted(prompt, texts.val))]
        ELSE [type |-> type, shape |-> ShapeOf(rows), data |-> Flatten(rows)]

\* CrossEncoder.predict(sentences, **kwargs): one score per pair
CE_predict(sentences, kwargs) ==
    [type |-> IF Get(kwargs, "convert_to_tensor", FALSE) THEN "tensor" ELSE "ndarray",
     shape |-> <<Len(sentences)>>,
     data |-> [i \in 1..Len(sentences) |->
                  Code(sentences[i].query) + Code(sentences[i].docs.text)]]

\* OpenAIEmbeddings.embed_documents(texts, chunk_size): one vector per text
OpenAI_embed_documents(texts) == [i \in 1..Len(texts) |-> Vec(texts[i])]

\* download_model(model_id, revision): the local directory of the snapshot
download_model(model_id) == <<"cache">> \o model_id

(* ------------------------------ BaseModel ------------------------------ *)

\* BaseModel.__init__, for the attributes the methods read
BaseModel_init(kind, model_name_or_path, kwargs) ==
    [kind |-> kind,
     model_name_or_path |-> model_name_or_path,
     prompt |-> Get(kwargs, "prompt", <<>>),
     encode_kwargs |->
        Update(Get(kwargs, "encode_kwargs", EmptyKw), [convert_to_tensor |-> TRUE]),
     batch_size |-> 0]

NoAdapter == [kind |-> "none"]

BaseModel_encode(self) == [self |-> self, calls |-> <<>>, ret |-> Raise("NotImplementedError")]

BaseModel_encode_queries(self) ==
    [self |-> self, calls |-> <<>>, ret |-> Raise("NotImplementedError")]

BaseModel_encode_corpus(self) ==
    [self |-> self, calls |-> <<>>, ret |-> Raise("NotImplementedError")]

(* ----------------------- SentenceTransformerModel ---------------------- *)

\* SentenceTransformerModel.__init__: the model is built from the path; pooling_mode
\* chooses how, and changes nothing the methods below read
SentenceTransformerModel_init(model_name_or_path, kwargs) ==
    BaseModel_init("bi", model_name_or_path, kwargs)

SentenceTransformerModel_encode(self, texts, prompt, kwargs) ==
    LET kw == Pop(kwargs, "prompt_name")
        encode_kwargs == Update(self.encode_kwargs, kw)
        embeddings == ST_encode(texts, prompt, encode_kwargs)
    IN  [self |-> [self EXCEPT !.encode_kwargs = encode_kwargs],
         calls |-> <<[fn |-> "SentenceTransformer.encode", sentences |-> texts,
                      prompt |-> prompt, kwargs |-> encode_kwargs]>>,
         ret |-> IF embeddings.type = "tensor"
                 THEN Ok(embeddings) ELSE Raise("AssertionError")]

SentenceTransformerModel_encode_queries(self, queries, kwargs) ==
    SentenceTransformerModel_encode(self, queries, self.prompt, EmptyKw)

\* the list comprehension of encode_corpus
InputTexts(corpus) ==
    [i \in 1..Len(corpus) |->
        Strip(Format(IF corpus[i].has_title THEN corpus[i].title ELSE <<>>,
                     corpus[i].text))]

SentenceTransformerModel_encode_corpus(self, corpus, kwargs) ==
    IF corpus = <<>>
    THEN [self |-> self, calls |-> <<>>, ret |-> Raise("IndexError")]
    ELSE LET input_texts == IF corpus[1].isdict THEN InputTexts(corpus) ELSE Texts(corpus)
         IN  SentenceTransformerModel_encode(self, Many(input_texts), NonePrompt, EmptyKw)

(* --------------------------- CrossEncoderModel ------------------------- *)

CrossEncoderModel_init(model_name_or_path, kwargs) ==
    BaseModel_init("cross", model_name_or_path, kwargs)

\* a loop body that forgets the prompt
ProcessedSentence_NoPrompt(self, item) ==
    [n |-> 2,
     query |-> item.query,
     docs |-> IF item.docs.isdict THEN Str(item.docs.text) ELSE item.docs]

\* the loop body of predict: one (query, docs, instruction) item to one pair
ProcessedSentence(self, item) ==
    [n |-> 2,
     query |-> self.prompt \o item.query,
     docs |-> IF item.docs.isdict THEN Str(item.docs.text) ELSE item.docs]

CrossEncoderModel_predict(self, sentences, kwargs) ==
    LET encode_kwargs == Update(self.encode_kwargs, kwargs)
        self2 == [self EXCEPT !.encode_kwargs = encode_kwargs]
    IN  IF sentences = <<>>
        THEN [self |-> self2, calls |-> <<>>, ret |-> Raise("IndexError")]
        ELSE LET processed ==
                    IF sentences[1].n = 3
                    THEN [i \in 1..Len(sentences) |-> ProcessedSentence(self, sentences[i])]
                    ELSE sentences
                 embeddings == CE_predict(processed, encode_kwargs)
             IN  [self |-> self2,
                  calls |-> <<[fn |-> "CrossEncoder.predict", sentences |-> processed,
                               kwargs |-> encode_kwargs]>>,
                  ret |-> IF embeddings.type = "tensor"
                          THEN Ok(embeddings) ELSE Raise("AssertionError")]

(* --------------------------- APIEmbeddingModel ------------------------- *)

APIEmbeddingModel_init(kwargs) ==
    LET base == BaseModel_init("api", Get(kwargs, "model_name", <<>>), kwargs)
    IN  [base EXCEPT !.batch_size = Get(base.encode_kwargs, "batch_size", DefaultBatchSize)]

\* a loop that swallows the failure of a chunk and goes on with the next
RECURSIVE EncodeLoop_SkipFailed(_, _, _, _, _, _)
EncodeLoop_SkipFailed(texts, batch_size, i, embeddings, log, failAt) ==
    IF i >= Len(texts)
    THEN [calls |-> log, ret |-> Ok(TorchTensor(embeddings))]
    ELSE LET chunk == Slice(texts, i, i + batch_size)
             call == [fn |-> "OpenAIEmbeddings.embed_documents", texts |-> chunk,
                      chunk_size |-> batch_size]
         IN  EncodeLoop_SkipFailed(texts, batch_size, i + batch_size,
                                   IF Len(log) + 1 = failAt
                                   THEN embeddings
                                   ELSE embeddings \o OpenAI_embed_documents(chunk),
                                   Append(log, call), failAt)

\* the for loop of encode from index i on (0-based), with the vectors and the calls
\* so far; the failAt-th call of the remote client raises (0: none does)
RECURSIVE EncodeLoop(_, _, _, _, _, _)
EncodeLoop(texts, batch_size, i, embeddings, log, failAt) ==
    IF i >= Len(texts)
    THEN [calls |-> log, ret |-> Ok(TorchTensor(embeddings))]
    ELSE LET chunk == Slice(texts, i, i + batch_size)
             call == [fn |-> "OpenAIEmbeddings.embed_documents", texts |-> chunk,
                      chunk_size |-> batch_size]
         IN  IF Len(log) + 1 = failAt
             THEN [calls |-> Append(log, call), ret |-> Raise("APIError")]
             ELSE EncodeLoop(texts, batch_size, i + batch_size,
                             embeddings \o OpenAI_embed_documents(chunk),
                             Append(log, call), failAt)

APIEmbeddingModel_encode(self, texts, kwargs, failAt) ==
    LET list == IF texts.isstr THEN <<texts.val>> ELSE texts.val
        r == EncodeLoop(list, self.batch_size, 0, <<>>, <<>>, failAt)
    IN  [self |-> self, calls |-> r.calls, ret |-> r.ret]

APIEmbeddingModel_encode_queries(self, queries, kwargs, failAt) ==
    APIEmbeddingModel_encode(self, queries, kwargs, failAt)

APIEmbeddingModel_encode_corpus(self, corpus, kwargs, failAt) ==
    IF corpus = <<>>
    THEN [self |-> self, calls |-> <<>>, ret |-> Raise("IndexError")]
    ELSE LET input_texts == IF corpus[1].isdict THEN InputTexts(corpus) ELSE Texts(corpus)
         IN  APIEmbeddingModel_encode(self, Many(input_texts), kwargs, failAt)

(* ------------------- the methods, by the adapter's class --------------- *)

encode(self, texts, kwargs, failAt) ==
    CASE self.kind = "bi" -> SentenceTransformerModel_encode(self, texts, NonePrompt, kwargs)
      [] self.kind = "api" -> APIEmbeddingModel_encode(self, texts, kwargs, failAt)
      [] OTHER -> BaseModel_encode(self)

encode_queries(self, queries, kwargs, failAt) ==
    CASE self.kind = "bi" -> SentenceTransformerModel_encode_queries(self, queries, kwargs)
      [] self.kind = "api" -> APIEmbeddingModel_encode_queries(self, queries, kwargs, failAt)
      [] OTHER -> BaseModel_encode_queries(self)

encode_corpus(self, corpus, kwargs, failAt) ==
    CASE self.kind = "bi" -> SentenceTransformerModel_encode_corpus(self, corpus, kwargs)
      [] self.kind = "api" -> APIEmbeddingModel_encode_corpus(self, corpus, kwargs, failAt)
      [] OTHER -> BaseModel_encode_corpus(self)

\* embed_documents through the query path, which puts the prompt before each text
embed_documents_AsQueries(self, texts, failAt) ==
    LET r == encode_queries(self, Many(texts), EmptyKw, failAt)
    IN  IF r.ret.status = "ok" THEN [r EXCEPT !.ret = Ok(ToList(r.ret.value))] ELSE r

\* return self.encode_corpus(texts).tolist()
embed_documents(self, texts, failAt) ==
    LET r == encode_corpus(self, StrItems(texts), EmptyKw, failAt)
    IN  IF r.ret.status = "ok" THEN [r EXCEPT !.ret = Ok(ToList(r.ret.value))] ELSE r

\* return self.encode_queries(text).tolist()
embed_query(self, text, failAt) ==
    LET r == encode_queries(self, One(text), EmptyKw, failAt)
    IN  IF r.ret.status = "ok" THEN [r EXCEPT !.ret = Ok(ToList(r.ret.value))] ELSE r

(* --------------------------- EmbeddingModel.load ----------------------- *)

\* the truth value of kwargs.get('model_name'): None and '' are false
Truthy(v) == v # <<>>

Constructed(self) ==
    [fn |-> "construct", kind |-> self.kind, model_name_or_path |-> self.model_name_or_path]

\* a mis-reading of line 210: the key being there is enough
UseAPI_KeyPresent(kwargs) == "model_name" \in DOMAIN kwargs

\* if kwargs.get('model_name')
UseAPI(kwargs) == Truthy(Get(kwargs, "model_name", <<>>))

\* a mis-reading of line 215: every missing path is downloaded
NeedsDownload_AnyHub(exists, hub) == ~exists

\* if not os.path.exists(model_name_or_path) and hub == HubType.MODELSCOPE
NeedsDownload(exists, hub) == ~exists /\ hub = MODELSCOPE

\* exists is os.path.exists(model_name_or_path); downloaded says whether download_model
\* returns (TRUE) or raises
load(model_name_or_path, is_cross_encoder, hub, kwargs, exists, downloaded) ==
    IF UseAPI(kwargs)
    THEN LET self == APIEmbeddingModel_init(kwargs)
         IN  [self |-> self, calls |-> <<Constructed(self)>>, ret |-> Ok(NoValue)]
    ELSE LET download == NeedsDownload(exists, hub)
             dl == IF download
                   THEN <<[fn |-> "download_model", model_id |-> model_name_or_path,
                           returned |-> IF downloaded
                                        THEN download_model(model_name_or_path)
                                        ELSE <<>>]>>
                   ELSE <<>>
             path == IF download THEN download_model(model_name_or_path)
                                 ELSE model_name_or_path
             self == IF is_cross_encoder THEN CrossEncoderModel_init(path, kwargs)
                                         ELSE SentenceTransformerModel_init(path, kwargs)
         IN  IF download /\ ~downloaded
             THEN [self |-> NoAdapter, calls |-> dl, ret |-> Raise("DownloadError")]
             ELSE [self |-> self, calls |-> dl \o <<Constructed(self)>>,
                   ret |-> Ok(NoValue)]

(* ------------------------------- inputs -------------------------------- *)

TextAlphabet == {<<"a">>, <<"b">>}

\* the list of n texts whose first j are "a" and whose others are "b"
Run(j, n) == [i \in 1..n |-> IF i <= j THEN <<"a">> ELSE <<"b">>]

\* the lists and single strs handed to APIEmbeddingModel.encode
LongInputs ==
    {Many(Run(p[1], p[2])) : p \in {q \in (0..MaxTexts) \X (0..MaxTexts) : q[1] <= q[2]}}
    \cup {One(t) : t \in TextAlphabet}

ShortLists == SeqsUpTo(TextAlphabet, MaxList)

ShortInputs == {Many(l) : l \in ShortLists} \cup {One(t) : t \in TextAlphabet}

\* structured records {"title"?: str, "text": str}
Dict(has_title, title, text) ==
    [isdict |-> TRUE, has_title |-> has_title, title |-> title, text |-> text]

DocTexts == {<<"b">>, <<"b", " ">>}

Docs == {Dict(FALSE, <<>>, <<"b">>)} \cup {Dict(TRUE, <<"A">>, t) : t \in DocTexts}

DictCorpora == SeqsUpTo(Docs, MaxDocs)

Corpora == {StrItems(l) : l \in ShortLists} \cup DictCorpora

Triples ==
    {[n |-> 3, query |-> <<"q">>, docs |-> d, instruction |-> <<"i">>] :
        d \in {Str(<<"d">>), Dict(FALSE, <<>>, <<"e">>)}}

Pairs == {[n |-> 2, query |-> <<"q">>, docs |-> Str(d)] : d \in {<<"d">>, <<"e">>}}

SentenceLists == SeqsUpTo(Triples, MaxPairs) \cup SeqsUpTo(Pairs, MaxPairs)

\* call-time options
CallKw ==
    {EmptyKw, [batch_size |-> MaxBatch], [convert_to_tensor |-> FALSE],
     [prompt_name |-> "query"]}

\* the call-time options of predict
PredictKw == {EmptyKw, [batch_size |-> MaxBatch], [convert_to_tensor |-> FALSE]}

\* the call-time options tried on a method that drops or ignores them
FewKw == {EmptyKw, [convert_to_tensor |-> FALSE]}

\* which remote call fails; only the remote adapter makes any
FailChoices(self) == IF self.kind = "api" THEN 0..MaxFail ELSE {0}

\* the arguments tried on each adapter: the cross-encoder has none of the encode
\* methods and the remote adapter reads no call-time option, so one or two do
EncodeInputs(self) ==
    CASE self.kind = "api" -> LongInputs
      [] self.kind = "bi" -> ShortInputs
      [] OTHER -> {One(<<"a">>), Many(<<>>)}

EncodeKw(self) ==
    CASE self.kind = "bi" -> CallKw
      [] self.kind = "api" -> {EmptyKw}
      [] OTHER -> FewKw

QueryInputs(self) == IF self.kind = "cross" THEN {One(<<"a">>)} ELSE ShortInputs

CorpusInputs(self) ==
    IF self.kind = "cross" THEN {c \in Corpora : Len(c) <= 1} ELSE Corpora

DropKw(self) == IF self.kind = "bi" THEN FewKw ELSE {EmptyKw}

\* an option bag holding key with one of vals, or not holding it
KwOpt(key, vals) == {EmptyKw} \cup {[k \in {key} |-> v] : v \in vals}

CtorEncodeKwargs ==
    {[batch_size |-> b] : b \in 1..MaxBatch} \cup {[convert_to_tensor |-> FALSE]}

LoadKwargs ==
    {Update(Update(a, b), c) :
        a \in KwOpt("model_name", {<<>>, <<"m">>}),
        b \in KwOpt("prompt", {<<"p">>}),
        c \in KwOpt("encode_kwargs", CtorEncodeKwargs)}

ModelPath == <<"b", "g", "e">>

(* --------------------------- the state machine ------------------------- *)

Init ==
    /\ adapter = NoAdapter
    /\ built = EmptyKw
    /\ lastOp = [name |-> "none"]
    /\ calls = <<>>
    /\ ret = Raise("none")

\* the outcome r of a method call becomes the state
Returns(r) ==
    /\ adapter' = r.self
    /\ calls' = r.calls
    /\ ret' = r.ret

Load ==
    /\ adapter.kind = "none"
    /\ \E is_cross_encoder \in BOOLEAN, hub \in Hubs, kwargs \in LoadKwargs,
          exists \in BOOLEAN, downloaded \in BOOLEAN :
          LET r == load(ModelPath, is_cross_encoder, hub, kwargs, exists, downloaded)
          IN  /\ Returns(r)
              /\ built' = IF r.ret.status = "ok" THEN r.self.encode_kwargs ELSE EmptyKw
              /\ lastOp' = [name |-> "load", model_name_or_path |-> ModelPath,
                            is_cross_encoder |-> is_cross_encoder, hub |-> hub,
                            kwargs |-> kwargs, exists |-> exists]

Encode ==
    /\ adapter.kind # "none"
    /\ \E texts \in EncodeInputs(adapter), kwargs \in EncodeKw(adapter),
          failAt \in FailChoices(adapter) :
          /\ Returns(encode(adapter, texts, kwargs, failAt))
          /\ lastOp' = [name |-> "encode", texts |-> texts, kwargs |-> kwargs,
                        failAt |-> failAt]
    /\ UNCHANGED built

EncodeQueries ==
    /\ adapter.kind # "none"
    /\ \E queries \in QueryInputs(adapter), kwargs \in DropKw(adapter), failAt \in FailChoices(adapter) :
          /\ Returns(encode_queries(adapter, queries, kwargs, failAt))
          /\ lastOp' = [name |-> "encode_queries", texts |-> queries, kwargs |-> kwargs,
                        failAt |-> failAt]
    /\ UNCHANGED built

EncodeCorpus ==
    /\ adapter.kind # "none"
    /\ \E corpus \in CorpusInputs(adapter), kwargs \in DropKw(adapter), failAt \in FailChoices(adapter) :
          /\ Returns(encode_corpus(adapter, corpus, kwargs, failAt))
          /\ lastOp' = [name |-> "encode_corpus", corpus |-> corpus, kwargs |-> kwargs,
                        failAt |-> failAt]
    /\ UNCHANGED built

EmbedDocuments ==
    /\ adapter.kind # "none"
    /\ \E texts \in ShortLists, failAt \in FailChoices(adapter) :
          /\ Returns(embed_documents(adapter, texts, failAt))
          /\ lastOp' = [name |-> "embed_documents", texts |-> texts, failAt |-> failAt]
    /\ UNCHANGED built

EmbedQuery ==
    /\ adapter.kind # "none"
    /\ \E text \in TextAlphabet, failAt \in FailChoices(adapter) :
          /\ Returns(embed_query(adapter, text, failAt))
          /\ lastOp' = [name |-> "embed_query", text |-> text, failAt |-> failAt]
    /\ UNCHANGED built

Predict ==
    /\ adapter.kind = "cross"
    /\ \E sentences \in SentenceLists, kwargs \in PredictKw :
          /\ Returns(CrossEncoderModel_predict(adapter, sentences, kwargs))
          /\ lastOp' = [name |-> "predict", sentences |-> sentences, kwargs |-> kwargs]
    /\ UNCHANGED built

Next ==
    \/ Load
    \/ Encode
    \/ EncodeQueries
    \/ EncodeCorpus
    \/ EmbedDocuments
    \/ EmbedQuery
    \/ Predict

Spec == Init /\ [][Next]_vars

(* ================================ claims =============================== *)

\* the calls of the last operation to the collaborator fn
CallsTo(fn) == {i \in DOMAIN calls : calls[i].fn = fn}

\* the option bag of the last load holds a remote model name that is not empty
NamedRemote == "model_name" \in DOMAIN lastOp.kwargs /\ lastOp.kwargs["model_name"] # <<>>

LocalKind == IF lastOp.is_cross_encoder THEN "cross" ELSE "bi"

\* C1 as stated: whenever the option bag holds the remote model name key, load
\* returns the remote API adapter; otherwise the cross-encoder adapter if the flag
\* is set and the bi-encoder adapter if not.
C1_KeyPresentGivesRemote ==
    (lastOp.name = "load" /\ ret.status = "ok") =>
        adapter.kind = IF "model_name" \in DOMAIN lastOp.kwargs THEN "api" ELSE LocalKind

\* C1 amended: load constructs exactly one adapter when it returns; whenever the
\* option bag holds a remote model name that is not empty (truthy), load returns
\* the remote API adapter, for every flag, path and hub, and never a local one;
\* otherwise (no name, or an empty one) a returning load gives the cross-encoder
\* adapter if the flag is set and the bi-encoder adapter if it is not.
C1_FirstMatch ==
    lastOp.name = "load" =>
        /\ NamedRemote => ret.status = "ok" /\ adapter.kind = "api"
        /\ (~NamedRemote /\ ret.status = "ok") => adapter.kind = LocalKind
        /\ ret.status = "ok" => Cardinality(CallsTo("construct")) = 1
        /\ ret.status # "ok" => adapter.kind = "none" /\ CallsTo("construct") = {}

\* C1 witness: a remote model name given together with the cross-encoder flag and a
\* path that is missing on the ModelScope hub, and the remote adapter came back
C1_Witness ==
    /\ lastOp.name = "load"
    /\ NamedRemote
    /\ lastOp.is_cross_encoder
    /\ ~lastOp.exists
    /\ lastOp.hub = MODELSCOPE
    /\ adapter.kind = "api"

\* C2 as stated: a missing path on the ModelScope hub means exactly one download,
\* before any construction, and the adapter built on the returned path.
C2_MissingPathDownloads ==
    (lastOp.name = "load" /\ ~lastOp.exists /\ lastOp.hub = MODELSCOPE) =>
        /\ Cardinality(CallsTo("download_model")) = 1
        /\ calls[1].fn = "download_model"
        /\ ret.status = "ok" => adapter.model_name_or_path = calls[1].returned

\* C2 amended: when the option bag holds no non-empty remote model name, the path
\* does not exist and the hub is ModelScope, download is invoked exactly once and
\* before any adapter is constructed, and the adapter, if the download returns, is
\* constructed with the path it returned; when the path does not exist and the hub
\* is another provider, or a non-empty remote model name is given, download is
\* never invoked.
C2_DownloadTrigger ==
    lastOp.name = "load" =>
        /\ (~NamedRemote /\ ~lastOp.exists /\ lastOp.hub = MODELSCOPE) =>
              /\ Cardinality(CallsTo("download_model")) = 1
              /\ calls[1].fn = "download_model"
              /\ calls[1].model_id = lastOp.model_name_or_path
              /\ ret.status = "ok" =>
                    /\ Len(calls) = 2
                    /\ calls[2].fn = "construct"
                    /\ calls[2].model_name_or_path = calls[1].returned
                    /\ adapter.model_name_or_path = calls[1].returned
                    /\ calls[1].returned # lastOp.model_name_or_path
        /\ (~lastOp.exists /\ lastOp.hub # MODELSCOPE) => CallsTo("download_model") = {}
        /\ NamedRemote => CallsTo("download_model") = {}

\* C2 witness: a local adapter built after the download of a missing path
C2_Witness ==
    /\ lastOp.name = "load"
    /\ ~NamedRemote
    /\ ~lastOp.exists
    /\ lastOp.hub = MODELSCOPE
    /\ ret.status = "ok"
    /\ Len(calls) = 2
    /\ adapter.kind = "cross"

\* the texts of the last encode call, as a list
EncodeList == IF lastOp.texts.isstr THEN <<lastOp.texts.val>> ELSE lastOp.texts.val

\* ceil(n / b)
CeilDiv(n, b) == (n + b - 1) \div b

\* texts[k*b : k*b + b], element by element
Chunk(texts, b, k) ==
    [j \in 1..(IF Len(texts) - k * b < b THEN Len(texts) - k * b ELSE b) |-> texts[k * b + j]]

\* the rows of a two-dimensional tensor or nested list
Row(t, i) == SubSeq(t.data, (i - 1) * t.shape[2] + 1, i * t.shape[2])

\* C3: the remote adapter's encode with batch size b, on N texts and with no remote
\* call failing, makes exactly ceil(N/b) batch-embed calls, the k-th carrying
\* texts[k*b : k*b+b], and returns one vector per text in input order.
C3_Batching ==
    (lastOp.name = "encode" /\ adapter.kind = "api" /\ ret.status = "ok") =>
        LET texts == EncodeList
            b == adapter.batch_size
        IN  /\ Len(calls) = CeilDiv(Len(texts), b)
            /\ \A k \in 0..(Len(calls) - 1) :
                  /\ calls[k + 1].fn = "OpenAIEmbeddings.embed_documents"
                  /\ calls[k + 1].texts = Chunk(texts, b, k)
            /\ ret.value.type = "tensor"
            /\ ret.value.shape[1] = Len(texts)
            /\ \A i \in 1..Len(texts) : Row(ret.value, i) = Vec(texts[i])

\* C3 witness: batch size 2 and 5 texts gave 3 calls, the last with one text
C3_Witness ==
    /\ lastOp.name = "encode"
    /\ adapter.kind = "api"
    /\ adapter.batch_size = 2
    /\ ret.status = "ok"
    /\ Len(EncodeList) = 5
    /\ Len(calls) = 3
    /\ Len(calls[3].texts) = 1

\* C8: when the remote batch-embed call for a chunk fails in the remote adapter's
\* encode, the caller gets that error and no vectors, the failed chunk is the last
\* one requested, and the k-th request is always for the k-th chunk, so that no
\* chunk is requested twice.
C8_FailurePropagates ==
    (lastOp.name = "encode" /\ adapter.kind = "api") =>
        LET texts == EncodeList
            b == adapter.batch_size
            n == CeilDiv(Len(texts), b)
        IN  /\ lastOp.failAt \in 1..n =>
                  /\ ret.status = "APIError"
                  /\ ret.value = NoValue
                  /\ Len(calls) = lastOp.failAt
            /\ lastOp.failAt \notin 1..n => ret.status = "ok"
            /\ Len(calls) <= n
            /\ \A k \in 0..(Len(calls) - 1) : calls[k + 1].texts = Chunk(texts, b, k)

\* C8 witness: the first of several chunks failed, after which nothing was requested
C8_Witness ==
    /\ lastOp.name = "encode"
    /\ adapter.kind = "api"
    /\ lastOp.failAt = 1
    /\ CeilDiv(Len(EncodeList), adapter.batch_size) >= 3
    /\ ret.status = "APIError"
    /\ Len(calls) = 1

\* what C4 says predict hands on for one (query, document, instruction) item
C4_Pair(item) == [n |-> 2, query |-> adapter.prompt \o item.query, docs |-> Str(item.docs.text)]

\* C4: for a list of three-element items predict passes on the pairs (prompt + query,
\* document) in the same order, a structured document replaced by its text and the
\* instruction dropped; a list of two-element pairs it passes on unchanged.
C4_TripleUnwrapping ==
    (lastOp.name = "predict" /\ lastOp.sentences # <<>>) =>
        /\ Len(calls) = 1
        /\ calls[1].fn = "CrossEncoder.predict"
        /\ lastOp.sentences[1].n = 3 =>
              /\ Len(calls[1].sentences) = Len(lastOp.sentences)
              /\ \A i \in 1..Len(lastOp.sentences) :
                    calls[1].sentences[i] = C4_Pair(lastOp.sentences[i])
        /\ lastOp.sentences[1].n = 2 => calls[1].sentences = lastOp.sentences

\* C4 witness: two triples, one with a structured document, under a prompt
C4_Witness ==
    /\ lastOp.name = "predict"
    /\ adapter.prompt = <<"p">>
    /\ Len(lastOp.sentences) = 2
    /\ lastOp.sentences[1].n = 3
    /\ lastOp.sentences[1].docs.isdict
    /\ ~lastOp.sentences[2].docs.isdict
    /\ calls[1].sentences[1].query = <<"p", "q">>

\* s without the spaces at its two ends
Trimmed(s) ==
    LET keep == {i \in 1..Len(s) : s[i] # " "}
        first == CHOOSE i \in keep : \A j \in keep : i <= j
        last == CHOOSE i \in keep : \A j \in keep : j <= i
    IN  IF keep = {} THEN <<>> ELSE SubSeq(s, first, last)

\* a record's title (empty when absent) and text joined with one space, trimmed
Joined(doc) == Trimmed((IF doc.has_title THEN doc.title ELSE <<>>) \o <<" ">> \o doc.text)

JoinedCorpus(corpus) == [i \in 1..Len(corpus) |-> Str(Joined(corpus[i]))]

\* C5: on the bi-encoder and remote adapters, encode_corpus of a corpus of
\* structured records makes the calls and gives the result that encode_corpus of
\* the joined and trimmed strings does; [{title: A, text: b}] is encoded as "A b".
C5_RecordNormalization ==
    (/\ lastOp.name = "encode_corpus"
     /\ adapter.kind \in {"bi", "api"}
     /\ lastOp.corpus # <<>>
     /\ lastOp.corpus[1].isdict) =>
        LET r == encode_corpus(adapter, JoinedCorpus(lastOp.corpus), lastOp.kwargs,
                               lastOp.failAt)
        IN  /\ calls = r.calls
            /\ ret = r.ret
            /\ adapter = r.self
            /\ (lastOp.corpus = <<Dict(TRUE, <<"A">>, <<"b">>)>> /\ lastOp.failAt # 1) =>
                  /\ adapter.kind = "bi" => calls[1].sentences = Many(<<<<"A", " ", "b">>>>)
                  /\ adapter.kind = "api" => calls[1].texts = <<<<"A", " ", "b">>>>

\* C5 witness: a corpus of two records, one without a title and one whose text
\* ends in a space, was encoded by the bi-encoder
C5_Witness ==
    /\ lastOp.name = "encode_corpus"
    /\ adapter.kind = "bi"
    /\ lastOp.corpus = <<Dict(FALSE, <<>>, <<"b">>), Dict(TRUE, <<"A">>, <<"b", " ">>)>>
    /\ ret.status = "ok"
    /\ calls[1].sentences.val = <<<<"b">>, <<"A", " ", "b">>>>

\* C6 as stated: on the bi-encoder and remote adapters with no prompt configured,
\* embed_query(t) is the flat vector embed_documents([t])[0].
C6_QueryEqualsFirstDocument ==
    (/\ lastOp.name = "embed_query"
     /\ adapter.kind \in {"bi", "api"}
     /\ adapter.prompt = <<>>
     /\ ret.status = "ok") =>
        LET d == embed_documents(adapter, <<lastOp.text>>, lastOp.failAt).ret
        IN  /\ d.status = "ok"
            /\ ret.value.shape = <<Len(Vec(lastOp.text))>>
            /\ ret.value.shape = ListItem(d.value, 0).shape
            /\ ret.value.data = ListItem(d.value, 0).data

C9_TensorFlagForced ==
    adapter.kind # "none" =>
        /\ adapter.encode_kwargs["convert_to_tensor"] = TRUE
        /\ \A i \in CallsTo("SentenceTransformer.encode") \cup CallsTo("CrossEncoder.predict") :
              calls[i].kwargs["convert_to_tensor"] = TRUE

\* C10 as stated: the options the runtime receives in an encode or predict call are
\* made of the construction-time options and that call's own options alone.
C10_NoCallStateSurvives ==
    (/\ \/ lastOp.name = "encode" /\ adapter.kind = "bi"
        \/ lastOp.name = "predict"
     /\ calls # <<>>) =>
        calls[1].kwargs =
            Update(built, IF lastOp.name = "encode" THEN Pop(lastOp.kwargs, "prompt_name")
                                                    ELSE lastOp.kwargs)

====
